---- MODULE Spec2Model ----
(***************************************************************************)
(* x402 facilitator WS/HTTP surface (src/src/handlers.rs), the sample      *)
(* streaming seller and buyer (examples/x402-ws-example/src/bin).          *)
(*                                                                         *)
(* Specifications, over one set of variables:                              *)
(*   SpecFac    one facilitator WS connection fed by an arbitrary client;  *)
(*   SpecHttp   one request given to POST /verify or /settle and to WS;    *)
(*   SpecChain  concurrent settle requests against one token contract;     *)
(*   Spec       one seller connection fed by an arbitrary buyer, with the  *)
(*              facilitator connection the seller opens per stream.pay;    *)
(*   SpecBoth   a facilitator client session, then a seller connection;    *)
(*   SpecForge  the seller fed by a buyer that picks its own requirements; *)
(*   SpecStream buyer.rs, the seller and the facilitator composed.         *)
(***************************************************************************)
EXTENDS Integers, Sequences, FiniteSets, TLC

\* Frames one seller connection reads before the model stops feeding it.
MaxFrames == 2
\* stream.pay frames the seller reads from buyer.rs before the model stops feeding it.
MaxSlices == 3

\* Error codes of the envelopes.
CodeSettlementFailed == 1001
CodeInvalidParams == -32602
CodeMethodNotFound == -32601
SellerErrorCode == 1001

----------------------------------------------------------------------------
(* JSON values, abstracted to what the code reads of them.                 *)

Absent == [t |-> "absent"]
Malformed == [t |-> "malformed"]
Garbage == [t |-> "garbage"]
NoPayer == "null"
NoReason == "null"

Payers == {"buyer"}
Addresses == {"seller", "other"}
Nonces == {1}
\* Atomic token amounts; a slice costs the larger one.
Amounts == {1, 2}

JsonNull == [t |-> "null"]
StrId(s) == [t |-> "str", s |-> s, n |-> 0]
NumId(n) == [t |-> "num", s |-> "", n |-> n]
\* Uuid::new_v4().to_string(): a string no client id equals; n makes it fresh.
Uuid(n) == [t |-> "str", s |-> "uuid", n |-> n]
ClientIds == {StrId("a"), NumId(1)}

PaymentPayloads ==
  {[t |-> "PaymentPayload", from |-> p, to |-> a, value |-> v, nonce |-> n] :
     p \in Payers, a \in Addresses, v \in Amounts, n \in Nonces}
PaymentRequirementsSet ==
  {[t |-> "PaymentRequirements", payTo |-> a, maxAmountRequired |-> 2] : a \in Addresses}
VerifyRequest(pp, pr) ==
  [t |-> "VerifyRequest", paymentPayload |-> pp, paymentRequirements |-> pr]
VerifyRequests ==
  {VerifyRequest(pp, pr) : pp \in PaymentPayloads, pr \in PaymentRequirementsSet}

----------------------------------------------------------------------------
(* crate::types and crate::chain, as far as the handlers use them.         *)

OptionPayerKinds == {"SchemeMismatch", "NetworkMismatch", "UnsupportedNetwork"}
PayerKinds == {"ReceiverMismatch", "InvalidSignature", "InvalidTiming",
               "InsufficientValue", "InsufficientFunds"}
ServerKinds == {"ContractCall", "InvalidAddress", "DecodingError", "ClockError"}

FacilitatorLocalError(from) ==
     {[kind |-> k, payer |-> p] : k \in OptionPayerKinds, p \in {NoPayer, from}}
  \cup {[kind |-> k, payer |-> from] : k \in PayerKinds}
  \cup {[kind |-> k, payer |-> NoPayer] : k \in ServerKinds}

VerifyResponse_valid(payer) ==
  [t |-> "VerifyResponse", isValid |-> TRUE, payer |-> payer, invalidReason |-> NoReason]
VerifyResponse_invalid(payer, reason) ==
  [t |-> "VerifyResponse", isValid |-> FALSE, payer |-> payer, invalidReason |-> reason]

SettleResponse(success, payer, reason) ==
  [t |-> "SettleResponse", success |-> success, payer |-> payer, errorReason |-> reason]

ErrorResponse == [t |-> "ErrorResponse", error |-> "Invalid request"]

Ok(v) == [ok |-> TRUE, val |-> v]
Err(e) == [ok |-> FALSE, err |-> e]
NoOutcome == [ok |-> TRUE, val |-> Absent]

\* The step of the verifier's pipeline at which an error kind arises. The receiver
\* (step 5) and value (step 6) checks are decided by the request itself.
StepsOf(kind) ==
  CASE kind = "SchemeMismatch" -> {2}
    [] kind \in {"NetworkMismatch", "UnsupportedNetwork"} -> {3}
    [] kind = "InvalidAddress" -> {4}
    [] kind = "ReceiverMismatch" -> {5}
    [] kind = "InsufficientValue" -> {6}
    [] kind \in {"InvalidTiming", "ClockError"} -> {7}
    [] kind = "InvalidSignature" -> {8, 10}
    [] kind = "InsufficientFunds" -> {9}
    [] kind = "ContractCall" -> {9, 10}
    [] kind = "DecodingError" -> {1, 9}

\* What the environment (chain state, RPC, clock, signature) makes of a request:
\* the first check it fails, if any, and the fate of a submitted transaction.
NoFault == [err |-> [kind |-> "none", payer |-> NoPayer], step |-> 0]
Faults(from) ==
  {NoFault} \cup
  UNION {{[err |-> e, step |-> s] : s \in StepsOf(e.kind)} :
           e \in {x \in FacilitatorLocalError(from) :
                    x.kind \notin {"ReceiverMismatch", "InsufficientValue"}}}
TxResults == {"mined", "reverted", "timeout", "rpc"}
Envs(from) == {[fault |-> f, tx |-> x] : f \in Faults(from), x \in TxResults}
NoEnv == [fault |-> NoFault, tx |-> "mined"]

\* facilitator.verify(&body): the pipeline, each step short-circuiting.
facilitator_verify(body, fault) ==
  LET pp == body.paymentPayload
      pr == body.paymentRequirements
  IN
  IF fault # NoFault /\ fault.step <= 4 THEN Err(fault.err)
  ELSE IF pp.to # pr.payTo THEN Err([kind |-> "ReceiverMismatch", payer |-> pp.from])
  ELSE IF pp.value < pr.maxAmountRequired
       THEN Err([kind |-> "InsufficientValue", payer |-> pp.from])
  ELSE IF fault # NoFault THEN Err(fault.err)
  ELSE Ok(VerifyResponse_valid(pp.from))

\* facilitator.settle(&body): re-verification, then one submission and its receipt.
facilitator_settle(body, env) ==
  LET v == facilitator_verify(body, env.fault)
      from == body.paymentPayload.from
  IN
  IF ~v.ok THEN v
  ELSE CASE env.tx = "mined" -> Ok(SettleResponse(TRUE, from, NoReason))
         [] env.tx \in {"reverted", "timeout"} ->
              Ok(SettleResponse(FALSE, from, "unexpectedSettleError"))
         [] env.tx = "rpc" -> Err([kind |-> "ContractCall", payer |-> NoPayer])

\* The results facilitator.verify(&body) can return.
FacilitatorVerify(body) ==
  {facilitator_verify(body, f) : f \in Faults(body.paymentPayload.from)}

\* The results facilitator.settle(&body) can return.
FacilitatorSettle(body) ==
  {facilitator_settle(body, e) : e \in Envs(body.paymentPayload.from)}

----------------------------------------------------------------------------
(* src/src/handlers.rs                                                     *)

NoMethod == "<absent>"
NoResp == [t |-> "none"]
NoData == [t |-> "none"]

\* A JSON object text {id, method, params}; a field may be missing.
EnvelopeText(id, method, params) ==
  [t |-> "obj", id |-> id, method |-> method, params |-> params]

\* Mutant: a missing id deserializes (as if the field had a default).
WsEnvelopeReq_id_optional(text) ==
  IF text.t # "obj" \/ text.method = NoMethod
  THEN Err("invalid envelope")
  ELSE Ok([id |-> text.id,
           method |-> text.method,
           params |-> IF text.params = Absent THEN JsonNull ELSE text.params])

\* serde_json::from_str::<WsEnvelopeReq>: id and method are required,
\* params takes its default (null) when missing.
WsEnvelopeReq(text) ==
  IF text.t # "obj" \/ text.id = Absent \/ text.method = NoMethod
  THEN Err("invalid envelope")
  ELSE Ok([id |-> text.id,
           method |-> text.method,
           params |-> IF text.params = Absent THEN JsonNull ELSE text.params])

WsEnvelopeOk(id, result) == [t |-> "ok", id |-> id, result |-> result]

WsErrorBody(code, message, data) == [code |-> code, message |-> message, data |-> data]

\* Mutant: an error envelope built with a null id.
WsEnvelopeErr_null_id(id, error) == [t |-> "err", id |-> JsonNull, error |-> error]

WsEnvelopeErr(id, error) == [t |-> "err", id |-> id, error |-> error]

\* serde_json::from_value::<VerifyRequest>(params) succeeds.
IsVerifyRequest(params) == params.t = "VerifyRequest"

\* Mutant: the payer is dropped.
invalid_schema_no_payer(payer) == VerifyResponse_invalid(NoPayer, "invalidScheme")

invalid_schema(payer) == VerifyResponse_invalid(payer, "invalidScheme")

\* Mutant: InsufficientFunds falls into the InvalidScheme arm.
map_error_funds_as_scheme(error) ==
  CASE error.kind \in {"SchemeMismatch", "ReceiverMismatch", "InvalidSignature",
                       "InvalidTiming", "InsufficientValue", "InsufficientFunds"} ->
         VerifyResponse_invalid(error.payer, "invalidScheme")
    [] error.kind \in {"NetworkMismatch", "UnsupportedNetwork"} ->
         VerifyResponse_invalid(error.payer, "invalidNetwork")
    [] OTHER -> VerifyResponse_invalid(NoPayer, "unexpectedSettleError")

\* Mutant: the receiver, timing and value kinds are reported without their payer.
map_error_early_no_payer(error) ==
  CASE error.kind = "SchemeMismatch" ->
         VerifyResponse_invalid(error.payer, "invalidScheme")
    [] error.kind \in {"ReceiverMismatch", "InvalidTiming", "InsufficientValue"} ->
         VerifyResponse_invalid(NoPayer, "invalidScheme")
    [] error.kind = "InvalidSignature" ->
         VerifyResponse_invalid(error.payer, "invalidScheme")
    [] error.kind \in {"NetworkMismatch", "UnsupportedNetwork"} ->
         VerifyResponse_invalid(error.payer, "invalidNetwork")
    [] error.kind \in {"ContractCall", "InvalidAddress", "DecodingError", "ClockError"} ->
         VerifyResponse_invalid(NoPayer, "unexpectedSettleError")
    [] error.kind = "InsufficientFunds" ->
         VerifyResponse_invalid(error.payer, "insufficientFunds")

map_error_to_verify_response(error) ==
  CASE error.kind = "SchemeMismatch" ->
         VerifyResponse_invalid(error.payer, "invalidScheme")
    [] error.kind \in {"ReceiverMismatch", "InvalidSignature", "InvalidTiming",
                       "InsufficientValue"} ->
         VerifyResponse_invalid(error.payer, "invalidScheme")
    [] error.kind \in {"NetworkMismatch", "UnsupportedNetwork"} ->
         VerifyResponse_invalid(error.payer, "invalidNetwork")
    [] error.kind \in {"ContractCall", "InvalidAddress", "DecodingError", "ClockError"} ->
         VerifyResponse_invalid(NoPayer, "unexpectedSettleError")
    [] error.kind = "InsufficientFunds" ->
         VerifyResponse_invalid(error.payer, "insufficientFunds")

HttpResponse(status, body) == [status |-> status, body |-> body]

\* Mutant: InvalidTiming falls into the bad_request arm.
into_response_timing_400(error) ==
  CASE error.kind \in {"SchemeMismatch", "ReceiverMismatch", "InvalidSignature",
                       "InsufficientValue"} ->
         HttpResponse(200, invalid_schema(error.payer))
    [] error.kind \in {"NetworkMismatch", "UnsupportedNetwork"} ->
         HttpResponse(200, VerifyResponse_invalid(error.payer, "invalidNetwork"))
    [] error.kind = "InsufficientFunds" ->
         HttpResponse(200, VerifyResponse_invalid(error.payer, "insufficientFunds"))
    [] OTHER -> HttpResponse(400, ErrorResponse)

into_response(error) ==
  CASE error.kind = "SchemeMismatch" ->
         HttpResponse(200, invalid_schema(error.payer))
    [] error.kind \in {"ReceiverMismatch", "InvalidSignature", "InvalidTiming",
                       "InsufficientValue"} ->
         HttpResponse(200, invalid_schema(error.payer))
    [] error.kind \in {"NetworkMismatch", "UnsupportedNetwork"} ->
         HttpResponse(200, VerifyResponse_invalid(error.payer, "invalidNetwork"))
    [] error.kind \in {"ContractCall", "InvalidAddress", "DecodingError", "ClockError"} ->
         HttpResponse(400, ErrorResponse)
    [] error.kind = "InsufficientFunds" ->
         HttpResponse(200, VerifyResponse_invalid(error.payer, "insufficientFunds"))

\* POST /verify and POST /settle, given the facilitator's result.
post_verify(outcome) ==
  IF outcome.ok THEN HttpResponse(200, outcome.val) ELSE into_response(outcome.err)

post_settle(outcome) ==
  IF outcome.ok THEN HttpResponse(200, outcome.val) ELSE into_response(outcome.err)

\* Which facilitator method handle_ws_text reaches for this text.
FacilitatorCall(text) ==
  LET parsed == WsEnvelopeReq(text) IN
  IF ~parsed.ok THEN "none"
  ELSE IF parsed.val.method = "x402.verify" /\ IsVerifyRequest(parsed.val.params)
       THEN "verify"
  ELSE IF parsed.val.method = "x402.settle" /\ IsVerifyRequest(parsed.val.params)
       THEN "settle"
  ELSE "none"

\* The arms of handle_ws_text's match, given the request id.
supported_reply(id) == WsEnvelopeOk(id, [t |-> "kinds"])

\* Mutant: a failed verify answered like a failed settle.
verify_reply_as_error(id, outcome) ==
  IF outcome.ok
  THEN WsEnvelopeOk(id, outcome.val)
  ELSE WsEnvelopeErr(id, WsErrorBody(CodeSettlementFailed, "Verification failed",
                                     map_error_to_verify_response(outcome.err)))

verify_reply(id, outcome) ==
  IF outcome.ok
  THEN WsEnvelopeOk(id, outcome.val)
  ELSE WsEnvelopeOk(id, map_error_to_verify_response(outcome.err))

\* Mutant: a failed settle answered like a failed verify.
settle_reply_as_result(id, outcome) ==
  IF outcome.ok
  THEN WsEnvelopeOk(id, outcome.val)
  ELSE WsEnvelopeOk(id, map_error_to_verify_response(outcome.err))

settle_reply(id, outcome) ==
  IF outcome.ok
  THEN WsEnvelopeOk(id, outcome.val)
  ELSE WsEnvelopeErr(id, WsErrorBody(CodeSettlementFailed, "Settlement failed",
                                     map_error_to_verify_response(outcome.err)))

\* Mutant: invalid params answered with the method-not-found code.
invalid_params_reply_wrong_code(id) ==
  WsEnvelopeErr(id, WsErrorBody(CodeMethodNotFound, "Invalid params", NoData))

invalid_params_reply(id) ==
  WsEnvelopeErr(id, WsErrorBody(CodeInvalidParams, "Invalid params", NoData))

method_not_found_reply(id) ==
  WsEnvelopeErr(id, WsErrorBody(CodeMethodNotFound, "Method not found", NoData))

\* Mutant: an unknown method is not answered.
handle_ws_text_silent_unknown(text, outcome) ==
  LET parsed == WsEnvelopeReq(text) IN
  IF ~parsed.ok THEN NoResp
  ELSE LET r == parsed.val IN
    CASE r.method = "x402.supported" -> supported_reply(r.id)
      [] r.method = "x402.verify" ->
           IF IsVerifyRequest(r.params) THEN verify_reply(r.id, outcome)
           ELSE invalid_params_reply(r.id)
      [] r.method = "x402.settle" ->
           IF IsVerifyRequest(r.params) THEN settle_reply(r.id, outcome)
           ELSE invalid_params_reply(r.id)
      [] OTHER -> NoResp

\* handle_ws_text, given the result of the facilitator call it makes (if any).
handle_ws_text(text, outcome) ==
  LET parsed == WsEnvelopeReq(text) IN
  IF ~parsed.ok THEN NoResp
  ELSE LET r == parsed.val IN
    CASE r.method = "x402.supported" -> supported_reply(r.id)
      [] r.method = "x402.verify" ->
           IF IsVerifyRequest(r.params) THEN verify_reply(r.id, outcome)
           ELSE invalid_params_reply(r.id)
      [] r.method = "x402.settle" ->
           IF IsVerifyRequest(r.params) THEN settle_reply(r.id, outcome)
           ELSE invalid_params_reply(r.id)
      [] OTHER -> method_not_found_reply(r.id)

\* The results the facilitator call of this text can have.
FacilitatorOutcomes(text) ==
  CASE FacilitatorCall(text) = "verify" -> FacilitatorVerify(text.params)
    [] FacilitatorCall(text) = "settle" -> FacilitatorSettle(text.params)
    [] OTHER -> {NoOutcome}

\* WebSocket frames.
Frame(kind, text) == [kind |-> kind, text |-> text]
NoFrame == Frame("none", Absent)
\* String::from_utf8_lossy of a binary frame's bytes.
from_utf8_lossy(bin) == IF bin = Malformed THEN Garbage ELSE bin

----------------------------------------------------------------------------
(* State.                                                                  *)

VARIABLES
  facOpen,      \* the facilitator's ws_serve loop of the connection is running
  facIn,        \* frame in flight to the facilitator connection
  facOut,       \* frame the latest ws_serve iteration sent on the socket
  facLast,      \* the latest ws_serve iteration: frame, call made, whether it
                \* returned Ok, and handle_ws_text's response
  httpLast,     \* the latest POST /verify or /settle: request, result, response
  probe,        \* SpecHttp: the request and facilitator result both surfaces are given
  slice_index,  \* seller: ws_serve's slice_index
  sellerPc,     \* seller: where ws_serve of the buyer connection stands
  req,          \* seller: the stream.pay envelope being processed
  verify,       \* seller: facilitator_verify_and_maybe_settle's verify
  settle,       \* seller: facilitator_verify_and_maybe_settle's settle
  pendingId,    \* seller: the id recv_result waits for
  sellerOut,    \* seller: envelopes sent to the buyer for the latest frame read
  handled,      \* seller: kind, id and method of the latest frame read, and
                \* slice_index when it was read
  acceptsSent,  \* seller: payment stream.accept envelopes sent so far
  framesRead,   \* seller: frames read so far
  requiresSent, \* seller: stream.require envelopes sent so far
  sentToFac,    \* seller: methods of the envelopes sent to the facilitator for the
                \* latest frame read
  buyerClosed,  \* the buyer has closed its connection; the seller has not read that yet
  lastRequire,  \* seller: params of the latest stream.require sent
  paidAuths,    \* seller: the (from, nonce) of the payments accepted so far
  buyer,        \* buyer.rs: position in main, frames sent, and envelopes read
  chainUsed,    \* the token contract's authorizationState: the (from, nonce) consumed
  tasks,        \* SpecChain: the concurrent settle requests, one per surface/instance
  uuidCtr       \* Uuid::new_v4 values minted so far

facVars == <<facOpen, facIn, facOut, facLast>>
sellerVars == <<slice_index, sellerPc, req, verify, settle, pendingId, sellerOut, handled,
                acceptsSent, framesRead, requiresSent, sentToFac, buyerClosed, uuidCtr,
                lastRequire, paidAuths>>
vars == <<facOpen, facIn, facOut, facLast, httpLast, probe, slice_index, sellerPc, req,
          verify, settle, pendingId, sellerOut, handled, acceptsSent, framesRead,
          requiresSent, sentToFac, buyerClosed, uuidCtr, lastRequire, paidAuths, buyer,
          chainUsed, tasks>>

NoIteration ==
  [frame |-> NoFrame, call |-> "none", ok |-> TRUE, response |-> NoResp]
NoHttp ==
  [endpoint |-> "none", body |-> Absent, outcome |-> NoOutcome,
   response |-> HttpResponse(0, Absent)]
NoProbe == [endpoint |-> "none", body |-> Absent, env |-> NoEnv, outcome |-> NoOutcome]
NoReq == [id |-> Absent, method |-> NoMethod, params |-> Absent]
NoHandled == [kind |-> "none", id |-> Absent, method |-> NoMethod, slice |-> 0]
\* The settle requests in flight at once: POST /settle and x402.settle on two
\* connections, each possibly served by another facilitator instance.
TaskIds == {"http", "ws", "ws2"}
NoTask == [pc |-> "idle", body |-> Absent, outcome |-> NoOutcome, response |-> NoResp]
\* No buyer.rs process: the seller's socket is fed arbitrary frames.
NoBuyer == [pc |-> "none", sent |-> 0, frame |-> NoFrame, epoch |-> 0, pos |-> 0]

InitState ==
  /\ facOpen = FALSE
  /\ facIn = NoFrame
  /\ facOut = NoFrame
  /\ facLast = NoIteration
  /\ httpLast = NoHttp
  /\ slice_index = 0
  /\ sellerPc = "recv"
  /\ req = NoReq
  /\ verify = Absent
  /\ settle = Absent
  /\ pendingId = Absent
  /\ sellerOut = <<>>
  /\ handled = NoHandled
  /\ acceptsSent = 0
  /\ framesRead = 0
  /\ requiresSent = 0
  /\ sentToFac = <<>>
  /\ buyerClosed = FALSE
  /\ lastRequire = Absent
  /\ paidAuths = {}
  /\ uuidCtr = 0
  /\ chainUsed = {}
  /\ tasks = [t \in TaskIds |-> NoTask]

Init == InitState /\ probe = NoProbe /\ buyer = NoBuyer

----------------------------------------------------------------------------
(* Facilitator: one iteration of ws_serve's loop on a frame.               *)

FrameText(frame) ==
  IF frame.kind = "binary" THEN from_utf8_lossy(frame.text) ELSE frame.text

\* The iteration passes something to socket.send.
Sends(frame, outcome) ==
  \/ frame.kind \in {"text", "binary"} /\ handle_ws_text(FrameText(frame), outcome) # NoResp
  \/ frame.kind = "ping"

\* Mutant: a Close frame does not end the loop.
ws_serve_ignores_close(frame, outcome, sendOk) ==
  /\ facOpen
  /\ LET isText == frame.kind \in {"text", "binary"}
         response == IF isText THEN handle_ws_text(FrameText(frame), outcome) ELSE NoResp
     IN
     /\ facLast' = [frame |-> frame,
                    call |-> IF isText THEN FacilitatorCall(FrameText(frame)) ELSE "none",
                    ok |-> outcome.ok,
                    response |-> response]
     /\ facOut' = IF isText /\ response # NoResp /\ sendOk THEN Frame("text", response)
                  ELSE IF frame.kind = "ping" /\ sendOk THEN Frame("pong", frame.text)
                  ELSE NoFrame
     /\ facOpen' = IF isText /\ response # NoResp /\ ~sendOk THEN FALSE ELSE TRUE

ws_serve(frame, outcome, sendOk) ==
  /\ facOpen
  /\ LET isText == frame.kind \in {"text", "binary"}
         response == IF isText THEN handle_ws_text(FrameText(frame), outcome) ELSE NoResp
     IN
     /\ facLast' = [frame |-> frame,
                    call |-> IF isText THEN FacilitatorCall(FrameText(frame)) ELSE "none",
                    ok |-> outcome.ok,
                    response |-> response]
     /\ facOut' = IF isText /\ response # NoResp /\ sendOk THEN Frame("text", response)
                  ELSE IF frame.kind = "ping" /\ sendOk THEN Frame("pong", frame.text)
                  ELSE NoFrame
     /\ facOpen' = IF isText /\ response # NoResp /\ ~sendOk THEN FALSE
                   ELSE IF frame.kind = "close" THEN FALSE
                   ELSE TRUE

FrameOutcomes(frame) ==
  IF frame.kind \in {"text", "binary"} THEN FacilitatorOutcomes(FrameText(frame))
  ELSE {NoOutcome}

----------------------------------------------------------------------------
(* SpecFac: an arbitrary client on one facilitator WS connection.          *)

ClientMethods == {"x402.supported", "x402.verify", "x402.settle", "x402.other", NoMethod}
ClientTexts ==
  {Garbage} \cup
  {EnvelopeText(id, m, p) : id \in ClientIds \cup {Absent}, m \in ClientMethods,
                            p \in {Absent, Malformed} \cup VerifyRequests}
BinaryPayloads ==
  {Malformed} \cup
  {EnvelopeText(StrId("a"), m, p) : m \in {"x402.verify", "x402.other"},
                                    p \in VerifyRequests}
ClientFrames ==
       {Frame("text", t) : t \in ClientTexts}
  \cup {Frame("binary", t) : t \in BinaryPayloads}
  \cup {Frame("ping", Absent), Frame("pong", Absent), Frame("close", Absent)}

\* ws_handler: a client connects and ws_serve starts.
ClientConnect ==
  /\ ~facOpen
  /\ facOpen' = TRUE
  /\ facOut' = NoFrame
  /\ facLast' = NoIteration
  /\ UNCHANGED <<facIn, httpLast, probe, buyer, chainUsed, tasks>>
  /\ UNCHANGED sellerVars

\* socket.next() yields a frame of the client.
ClientFrame ==
  /\ \E frame \in ClientFrames :
       \E outcome \in FrameOutcomes(frame) :
         \E sendOk \in (IF Sends(frame, outcome) THEN BOOLEAN ELSE {TRUE}) :
           ws_serve(frame, outcome, sendOk)
  /\ UNCHANGED <<facIn, httpLast, probe, buyer, chainUsed, tasks>>
  /\ UNCHANGED sellerVars

\* socket.next() yields None or an error: the loop ends.
ConnectionLost ==
  /\ facOpen
  /\ facOpen' = FALSE
  /\ UNCHANGED <<facIn, facOut, facLast, httpLast, probe, buyer, chainUsed, tasks>>
  /\ UNCHANGED sellerVars

NextFac ==
  \/ ClientConnect
  \/ ClientFrame
  \/ ConnectionLost

SpecFac == Init /\ [][NextFac]_vars

----------------------------------------------------------------------------
(* SpecHttp: one request (body and the facilitator's result on it) given   *)
(* to POST /verify or POST /settle and to the same method over WS.         *)

Probes ==
       UNION {{[endpoint |-> "verify", body |-> b, env |-> [fault |-> f, tx |-> "mined"],
                outcome |-> facilitator_verify(b, f)] :
                 f \in Faults(b.paymentPayload.from)} : b \in VerifyRequests}
  \cup UNION {{[endpoint |-> "settle", body |-> b, env |-> e,
                outcome |-> facilitator_settle(b, e)] :
                 e \in Envs(b.paymentPayload.from)} : b \in VerifyRequests}

InitHttp == InitState /\ probe \in Probes /\ buyer = NoBuyer

PostVerify ==
  /\ probe.endpoint = "verify"
  /\ httpLast' = [endpoint |-> "verify", body |-> probe.body, outcome |-> probe.outcome,
                  response |-> post_verify(probe.outcome)]
  /\ UNCHANGED <<facOpen, facIn, facOut, facLast, probe, buyer, chainUsed, tasks>>
  /\ UNCHANGED sellerVars

PostSettle ==
  /\ probe.endpoint = "settle"
  /\ httpLast' = [endpoint |-> "settle", body |-> probe.body, outcome |-> probe.outcome,
                  response |-> post_settle(probe.outcome)]
  /\ UNCHANGED <<facOpen, facIn, facOut, facLast, probe, buyer, chainUsed, tasks>>
  /\ UNCHANGED sellerVars

\* The same request as an x402.verify / x402.settle envelope on the WS connection.
WsRequest ==
  /\ \E id \in ClientIds :
       \E sendOk \in BOOLEAN :
         ws_serve(Frame("text", EnvelopeText(id, IF probe.endpoint = "verify"
                                                 THEN "x402.verify" ELSE "x402.settle",
                                             probe.body)),
                  probe.outcome, sendOk)
  /\ UNCHANGED <<facIn, httpLast, probe, buyer, chainUsed, tasks>>
  /\ UNCHANGED sellerVars

NextHttp ==
  \/ ClientConnect
  \/ PostVerify
  \/ PostSettle
  \/ WsRequest

SpecHttp == InitHttp /\ [][NextHttp]_vars

----------------------------------------------------------------------------
(* SpecChain: concurrent settle requests carrying the same authorization,  *)
(* against one token contract.                                             *)

AuthKey(body) == <<body.paymentPayload.from, body.paymentPayload.nonce>>

\* Mutant: the contract executes an authorization whatever its state.
transferWithAuthorization_unchecked(used, key) ==
  [ok |-> TRUE, used |-> used \cup {key}]

\* The token contract's transferWithAuthorization, executed in one transaction: it
\* reverts when the authorization was already used and consumes it otherwise.
transferWithAuthorization(used, key) ==
  IF key \in used THEN [ok |-> FALSE, used |-> used]
  ELSE [ok |-> TRUE, used |-> used \cup {key}]

\* The requests that pass the receiver and value checks, and the faults drawn here.
SettleRequests ==
  {b \in VerifyRequests :
     /\ b.paymentPayload.to = b.paymentRequirements.payTo
     /\ b.paymentPayload.value >= b.paymentRequirements.maxAmountRequired}
ChainFaults ==
  {NoFault, [err |-> [kind |-> "ContractCall", payer |-> NoPayer], step |-> 9]}

\* The settler's re-verification: the pipeline, whose step 10 reads authorizationState.
reverify(body, fault, used) ==
  LET v == facilitator_verify(body, fault) IN
  IF v.ok /\ AuthKey(body) \in used
  THEN Err([kind |-> "InvalidSignature", payer |-> body.paymentPayload.from])
  ELSE v

\* What the surface of task t answers for the result of facilitator.settle.
Respond(t, outcome) ==
  IF t = "http" THEN post_settle(outcome) ELSE settle_reply(StrId(t), outcome)

\* The response of task t reports a successful settlement.
Succeeded(t) ==
  /\ tasks[t].pc = "done"
  /\ tasks[t].outcome.ok
  /\ IF t = "http"
     THEN /\ tasks[t].response.status = 200
          /\ tasks[t].response.body.t = "SettleResponse"
          /\ tasks[t].response.body.success
     ELSE /\ tasks[t].response.t = "ok"
          /\ tasks[t].response.result.t = "SettleResponse"
          /\ tasks[t].response.result.success

\* facilitator.settle is called and re-verifies; a failure is answered at once.
SettleBegin ==
  /\ \E t \in TaskIds, body \in SettleRequests, fault \in ChainFaults :
       /\ tasks[t].pc = "idle"
       /\ LET v == reverify(body, fault, chainUsed) IN
          tasks' = [tasks EXCEPT ![t] =
                      IF v.ok
                      THEN [pc |-> "verified", body |-> body, outcome |-> NoOutcome,
                            response |-> NoResp]
                      ELSE [pc |-> "done", body |-> body, outcome |-> v,
                            response |-> Respond(t, v)]]
  /\ UNCHANGED <<facVars, httpLast, probe, buyer, chainUsed>>
  /\ UNCHANGED sellerVars

\* The one submission of the request, its receipt, and the answer.
SettleSubmit ==
  /\ \E t \in TaskIds, sent \in BOOLEAN, receipt \in BOOLEAN :
       /\ tasks[t].pc = "verified"
       /\ LET r == transferWithAuthorization(chainUsed, AuthKey(tasks[t].body))
              tx == IF ~sent THEN "rpc"
                    ELSE IF ~receipt THEN "timeout"
                    ELSE IF r.ok THEN "mined" ELSE "reverted"
              outcome == facilitator_settle(tasks[t].body, [fault |-> NoFault, tx |-> tx])
          IN
          /\ chainUsed' = IF sent THEN r.used ELSE chainUsed
          /\ tasks' = [tasks EXCEPT ![t] =
                         [pc |-> "done", body |-> tasks[t].body, outcome |-> outcome,
                          response |-> Respond(t, outcome)]]
  /\ UNCHANGED <<facVars, httpLast, probe, buyer>>
  /\ UNCHANGED sellerVars

NextChain ==
  \/ SettleBegin
  \/ SettleSubmit

SpecChain == Init /\ [][NextChain]_vars

----------------------------------------------------------------------------
(* examples/x402-ws-example/src/bin/seller.rs                              *)

SellerPayTo == "seller"
JsonNum(n) == [t |-> "num", s |-> "", n |-> n]

\* params of a stream.pay; a field may be missing.
PayParams(streamId, sliceIndex, paymentPayload, requirements, verifyOnly) ==
  [t |-> "payParams", streamId |-> streamId, sliceIndex |-> sliceIndex,
   paymentPayload |-> paymentPayload, requirements |-> requirements,
   verifyOnly |-> verifyOnly]

\* serde_json::Value::get on the params: None unless an object holding the field.
Get(params, field) == IF params.t = "payParams" THEN params[field] ELSE Absent

\* serde_json::from_str::<EnvelopeReq>
EnvelopeReq(text) == WsEnvelopeReq(text)

\* Mutant: verifyOnly is not read.
verify_only_ignored(params) == FALSE

\* req.params.get("verifyOnly").and_then(|v| v.as_bool()).unwrap_or(false)
verify_only(params) ==
  LET v == Get(params, "verifyOnly") IN
  IF v.t = "bool" THEN v.b ELSE FALSE

\* req.params.get("streamId").and_then(|v| v.as_str()).unwrap_or("unknown")
stream_id_of(params) ==
  LET v == Get(params, "streamId") IN
  IF v.t = "str" THEN v ELSE StrId("unknown")

build_requirements(stream_id, slice) ==
  [streamId |-> stream_id, sliceIndex |-> slice,
   requirements |-> [t |-> "PaymentRequirements", payTo |-> SellerPayTo,
                     maxAmountRequired |-> 2]]

StreamAccept(id, stream_id) ==
  [t |-> "ok", id |-> id, method |-> "stream.accept",
   params |-> [t |-> "stream", streamId |-> stream_id, payTo |-> SellerPayTo]]

PaymentAccept(id, v, st) ==
  [t |-> "ok", id |-> id, method |-> "stream.accept",
   params |-> [t |-> "payment", verify |-> v, settle |-> st]]

StreamRequire(id, params) ==
  [t |-> "request", id |-> id, method |-> "stream.require", params |-> params]

SellerError(id) ==
  [t |-> "err", id |-> id, method |-> "error", params |-> [code |-> SellerErrorCode]]

\* The "stream.init" arm: what is sent, given the two UUIDs it mints.
on_stream_init(slice, id, stream_id, require_id) ==
  <<StreamAccept(id, stream_id),
    StreamRequire(require_id, build_requirements(stream_id, slice))>>

\* The Ok arm of the "stream.pay" match: the new slice_index and what is sent.
on_pay_ok(slice, r, v, st, require_id) ==
  [slice_index |-> slice + 1,
   out |-> <<PaymentAccept(r.id, v, st),
             StreamRequire(require_id,
                           build_requirements(stream_id_of(r.params), slice + 1))>>]

\* Mutant: the Err arm asks again for the slice.
on_pay_err_requires(slice, r) ==
  [slice_index |-> slice,
   out |-> <<SellerError(r.id),
             StreamRequire(r.id, build_requirements(stream_id_of(r.params), slice))>>]

\* Mutant: the Err arm advances the slice too.
on_pay_err_advances(slice, r) ==
  [slice_index |-> slice + 1, out |-> <<[t |-> "err", id |-> r.id, method |-> "error",
                                         params |-> [code |-> SellerErrorCode]]>>]

\* The Err arm of the "stream.pay" match.
on_pay_err(slice, r) ==
  [slice_index |-> slice, out |-> <<SellerError(r.id)>>]

\* facilitator_verify_and_maybe_settle up to building verify_req.
build_verify_req(params) ==
  LET pp == Get(params, "paymentPayload")
      pr == Get(params, "requirements")
  IN
  IF pp = Absent THEN Err("missing paymentPayload")
  ELSE IF Get(params, "sliceIndex") = Absent \/ pr = Absent
       THEN Err("missing requirements")
  ELSE IF pp.t # "PaymentPayload" \/ pr.t # "PaymentRequirements"
       THEN Err("deserialize")
  ELSE Ok(VerifyRequest(pp, pr))

\* v.to_string().trim_matches('"'): the characters of the id, its JSON type dropped.
IdText(v) == <<v.s, v.n>>

\* recv_result on one frame from the facilitator, waiting for `id`.
recv_result(frame, id) ==
  IF frame.kind = "text" /\ frame.text.id # Absent /\ IdText(frame.text.id) = IdText(id)
  THEN IF frame.text.t = "err"
       THEN [status |-> "err", val |-> Absent]
       ELSE [status |-> "ok", val |-> frame.text.result]
  ELSE [status |-> "skip", val |-> Absent]

JsonBool(b) == [t |-> "bool", b |-> b]

\* Frames a buyer can put on the seller connection.
GoodPayParams ==
  {PayParams(sid, JsonNum(i), b.paymentPayload, b.paymentRequirements, vo) :
     sid \in {Absent, Uuid(1)}, i \in {0},
     b \in {x \in VerifyRequests :
              x.paymentPayload.value = 2 /\ x.paymentPayload.to = SellerPayTo},
     vo \in {Absent, JsonBool(TRUE), JsonBool(FALSE)}}
BadPayParams ==
  LET pp == CHOOSE x \in PaymentPayloads : TRUE
      pr == CHOOSE x \in PaymentRequirementsSet : x.payTo = SellerPayTo
  IN {JsonNull,
      PayParams(Uuid(1), JsonNum(0), Absent, pr, Absent),
      PayParams(Uuid(1), JsonNum(0), Malformed, pr, Absent),
      PayParams(Uuid(1), Absent, pp, pr, Absent),
      PayParams(Uuid(1), JsonNum(0), pp, Absent, Absent),
      PayParams(Uuid(1), JsonNum(0), pp, Malformed, JsonBool(TRUE))}
BuyerTexts ==
       {Garbage, EnvelopeText(Absent, "stream.init", Absent),
        EnvelopeText(StrId("a"), "stream.other", Absent)}
  \cup {EnvelopeText(id, "stream.init", Absent) : id \in ClientIds}
  \cup {EnvelopeText(id, "stream.pay", p) : id \in ClientIds,
                                            p \in GoodPayParams \cup BadPayParams}
BuyerFrames ==
       {Frame("text", t) : t \in BuyerTexts}
  \cup {Frame("binary", EnvelopeText(StrId("a"), "stream.init", Absent)),
        Frame("ping", Absent), Frame("close", Absent)}

\* The authorization a stream.pay carries.
PaidBy(params) ==
  <<Get(params, "paymentPayload").from, Get(params, "paymentPayload").nonce>>

----------------------------------------------------------------------------
(* examples/x402-ws-example/src/bin/buyer.rs                               *)

\* The stream.init envelope main sends after connecting.
BuyerInit ==
  Frame("text", EnvelopeText(StrId("init"), "stream.init", [t |-> "initParams"]))

\* payments.make_payment_payload(requirements): an authorization from the wallet's
\* address, signed for the requirements, with a nonce of its own.
make_payment_payload(requirements, nonce) ==
  [t |-> "PaymentPayload", from |-> "buyer", to |-> requirements.payTo,
   value |-> requirements.maxAmountRequired, nonce |-> nonce]

\* Mutant: only the first stream.require is answered.
BuyerReplies_first_only(env) ==
  env.t = "request" /\ env.method = "stream.require" /\ env.params.sliceIndex = 0

\* The arm of main's match an envelope takes: only a stream.require is answered.
BuyerReplies(env) == env.t = "request" /\ env.method = "stream.require"

\* Mutant: every stream.pay names slice 0.
stream_pay_stale_slice(env, nonce) ==
  Frame("text",
        EnvelopeText(env.id, "stream.pay",
                     PayParams(env.params.streamId, JsonNum(0),
                               make_payment_payload(env.params.requirements, nonce),
                               env.params.requirements, JsonBool(FALSE))))

\* The stream.pay envelope built for a stream.require.
stream_pay(env, nonce) ==
  LET params == env.params
      stream_id == IF params.streamId.t = "str" THEN params.streamId ELSE StrId("")
  IN Frame("text",
           EnvelopeText(env.id, "stream.pay",
                        PayParams(stream_id, JsonNum(params.sliceIndex),
                                  make_payment_payload(params.requirements, nonce),
                                  params.requirements, JsonBool(FALSE))))

\* A buyer that picks the requirements it pays and the slice it names.
ForgerFrames ==
  {BuyerInit} \cup
  {Frame("text", EnvelopeText(StrId("a"), "stream.pay",
                              PayParams(Uuid(1), JsonNum(i), b.paymentPayload,
                                        b.paymentRequirements, vo))) :
     i \in {0, 1},
     b \in {x \in VerifyRequests :
              /\ x.paymentPayload.value = 2
              /\ x.paymentRequirements.payTo = x.paymentPayload.to},
     vo \in {Absent, JsonBool(TRUE)}}

\* What socket.next() of the seller's connection can yield: anything when no buyer
\* process is modelled, else what that buyer sent and the seller has not read.
SocketFrames ==
  CASE buyer.pc = "none" -> BuyerFrames
    [] buyer.pc = "forger" -> ForgerFrames
    [] OTHER -> IF framesRead < buyer.sent THEN {buyer.frame} ELSE {}

\* Frames the seller reads before the model stops feeding it.
FrameLimit == IF buyer.pc \in {"none", "forger"} THEN MaxFrames ELSE MaxSlices + 1

IsPaymentAccept(env) == env.method = "stream.accept" /\ env.params.t = "payment"
IsStreamAccept(env) == env.method = "stream.accept" /\ env.params.t = "stream"
IsRequire(env) == env.method = "stream.require"
IsError(env) == env.method = "error"

\* socket.send of each envelope of `out`, in order.
Send(out) ==
  /\ sellerOut' = out
  /\ acceptsSent' = acceptsSent + Cardinality({i \in DOMAIN out : IsPaymentAccept(out[i])})
  /\ requiresSent' = requiresSent + Cardinality({i \in DOMAIN out : IsRequire(out[i])})
  /\ lastRequire' = IF \E i \in DOMAIN out : IsRequire(out[i])
                    THEN out[Len(out)].params
                    ELSE lastRequire
  /\ paidAuths' = IF \E i \in DOMAIN out : IsPaymentAccept(out[i])
                  THEN paidAuths \cup {PaidBy(req.params)}
                  ELSE paidAuths

\* ws.send of an envelope to the facilitator, after those of `before`.
SendFacilitator(before, frame) ==
  /\ facIn' = frame
  /\ sentToFac' = Append(before, frame.text.method)

IsText(frame) == frame.kind = "text" /\ EnvelopeReq(frame.text).ok
MethodOf(frame) == EnvelopeReq(frame.text).val.method

\* Mutant: a frame is read while a stream.pay is still being processed.
ReadFrame_while_busy(frame) ==
  /\ sellerPc # "closed"
  /\ framesRead < MaxFrames
  /\ framesRead' = framesRead + 1
  /\ handled' = [kind |-> frame.kind,
                 id |-> IF IsText(frame) THEN EnvelopeReq(frame.text).val.id ELSE Absent,
                 method |-> IF IsText(frame) THEN MethodOf(frame) ELSE NoMethod,
                 slice |-> slice_index]

\* The bookkeeping of reading one frame.
ReadFrame(frame) ==
  /\ sellerPc = "recv"
  /\ buyerClosed => frame.kind \in {"close", "none"}
  /\ framesRead < FrameLimit
  /\ framesRead' = framesRead + 1
  /\ handled' = [kind |-> frame.kind,
                 id |-> IF IsText(frame) THEN EnvelopeReq(frame.text).val.id ELSE Absent,
                 method |-> IF IsText(frame) THEN MethodOf(frame) ELSE NoMethod,
                 slice |-> slice_index]

\* The facilitator connection of facilitator_verify_and_maybe_settle is dropped.
DropFacilitator ==
  /\ facOpen' = FALSE
  /\ facIn' = NoFrame
  /\ facOut' = NoFrame
  /\ facLast' = NoIteration

\* ws_serve reads a frame that is neither a stream.init nor a stream.pay envelope.
SellerRecvOther ==
  /\ \E frame \in SocketFrames :
       /\ frame.kind # "close"
       /\ ~(IsText(frame) /\ MethodOf(frame) \in {"stream.init", "stream.pay"})
       /\ ReadFrame(frame)
  /\ Send(<<>>)
  /\ verify' = Absent
  /\ settle' = Absent
  /\ sentToFac' = <<>>
  /\ UNCHANGED <<slice_index, sellerPc, req, pendingId, buyerClosed, uuidCtr>>
  /\ UNCHANGED <<facVars, httpLast, probe, buyer, chainUsed, tasks>>

\* ws_serve reads Close, or the socket ends.
SellerRecvClose ==
  /\ \E frame \in {Frame("close", Absent), NoFrame} : ReadFrame(frame)
  /\ sellerPc' = "closed"
  /\ Send(<<>>)
  /\ verify' = Absent
  /\ settle' = Absent
  /\ sentToFac' = <<>>
  /\ UNCHANGED <<slice_index, req, pendingId, buyerClosed, uuidCtr>>
  /\ UNCHANGED <<facVars, httpLast, probe, buyer, chainUsed, tasks>>

\* ws_serve reads a stream.init envelope.
SellerRecvInit ==
  /\ \E frame \in SocketFrames :
       /\ IsText(frame) /\ MethodOf(frame) = "stream.init"
       /\ ReadFrame(frame)
       /\ Send(on_stream_init(slice_index, EnvelopeReq(frame.text).val.id,
                               Uuid(uuidCtr + 1), Uuid(uuidCtr + 2)))
  /\ uuidCtr' = uuidCtr + 2
  /\ verify' = Absent
  /\ settle' = Absent
  /\ sentToFac' = <<>>
  /\ UNCHANGED <<slice_index, sellerPc, req, pendingId, buyerClosed>>
  /\ UNCHANGED <<facVars, httpLast, probe, buyer, chainUsed, tasks>>

\* ws_serve reads a stream.pay envelope; facilitator_verify_and_maybe_settle runs
\* up to its first await on the facilitator (or fails before it).
SellerRecvPay ==
  \E frame \in SocketFrames :
    /\ IsText(frame) /\ MethodOf(frame) = "stream.pay"
    /\ ReadFrame(frame)
    /\ LET r == EnvelopeReq(frame.text).val
           vr == build_verify_req(r.params)
       IN \E connectOk \in (IF vr.ok THEN BOOLEAN ELSE {FALSE}) :
            IF vr.ok /\ connectOk
            THEN /\ req' = r
                 /\ sellerPc' = "awaitVerify"
                 /\ pendingId' = Uuid(uuidCtr + 1)
                 /\ uuidCtr' = uuidCtr + 1
                 /\ facOpen' = TRUE
                 /\ SendFacilitator(<<>>, Frame("text", EnvelopeText(Uuid(uuidCtr + 1),
                                                                     "x402.verify", vr.val)))
                 /\ facOut' = NoFrame
                 /\ facLast' = NoIteration
                 /\ Send(<<>>)
                 /\ UNCHANGED slice_index
            ELSE /\ Send(on_pay_err(slice_index, r).out)
                 /\ slice_index' = on_pay_err(slice_index, r).slice_index
                 /\ sentToFac' = <<>>
                 /\ UNCHANGED <<sellerPc, req, pendingId, uuidCtr, facVars>>
    /\ verify' = Absent
    /\ settle' = Absent
    /\ UNCHANGED <<buyerClosed, httpLast, probe, buyer, chainUsed, tasks>>

\* The outcome reports a valid verification or a successful settlement.
Positive(outcome) ==
  /\ outcome.ok
  /\ outcome.val # Absent
  /\ IF outcome.val.t = "SettleResponse" THEN outcome.val.success ELSE outcome.val.isValid

\* The results the facilitator call of this frame can have on a chain where the
\* authorizations of `used` are consumed: a consumed one neither verifies nor settles.
ChainOutcomes(frame, used) ==
  {o \in FrameOutcomes(frame) :
     Positive(o) => AuthKey(FrameText(frame).params) \notin used}

\* The facilitator's ws_serve reads the frame the seller sent; a successful
\* settlement consumes the authorization.
FacilitatorServes ==
  /\ facIn # NoFrame
  /\ \E outcome \in ChainOutcomes(facIn, chainUsed) :
       /\ \E sendOk \in (IF Sends(facIn, outcome) THEN BOOLEAN ELSE {TRUE}) :
            ws_serve(facIn, outcome, sendOk)
       /\ chainUsed' = IF Positive(outcome) /\ outcome.val.t = "SettleResponse"
                       THEN chainUsed \cup {AuthKey(FrameText(facIn).params)}
                       ELSE chainUsed
  /\ facIn' = NoFrame
  /\ UNCHANGED <<httpLast, probe, buyer, tasks>>
  /\ UNCHANGED sellerVars

\* The Ok arm (lines 141-169), after which the facilitator connection is dropped.
PayAccepted(v, st) ==
  LET o == on_pay_ok(slice_index, req, v, st, Uuid(uuidCtr + 1)) IN
  /\ slice_index' = o.slice_index
  /\ Send(o.out)
  /\ uuidCtr' = uuidCtr + 1
  /\ sellerPc' = "recv"
  /\ req' = NoReq
  /\ pendingId' = Absent
  /\ DropFacilitator
  /\ UNCHANGED sentToFac

\* The Err arm (lines 170-176).
PayRejected ==
  LET o == on_pay_err(slice_index, req) IN
  /\ slice_index' = o.slice_index
  /\ Send(o.out)
  /\ sellerPc' = "recv"
  /\ req' = NoReq
  /\ pendingId' = Absent
  /\ DropFacilitator
  /\ UNCHANGED <<sentToFac, uuidCtr>>

\* recv_result(&mut ws, &id_verify) gets a frame; then lines 247-258.
SellerVerifyResult ==
  /\ sellerPc = "awaitVerify"
  /\ facOut # NoFrame
  /\ LET got == recv_result(facOut, pendingId) IN
       CASE got.status = "err" -> PayRejected /\ UNCHANGED <<verify, settle>>
         [] got.status = "ok" /\ ~verify_only(req.params) ->
              /\ verify' = got.val
              /\ UNCHANGED settle
              /\ sellerPc' = "awaitSettle"
              /\ pendingId' = Uuid(uuidCtr + 1)
              /\ uuidCtr' = uuidCtr + 1
              /\ SendFacilitator(sentToFac,
                                 Frame("text", EnvelopeText(Uuid(uuidCtr + 1), "x402.settle",
                                                            build_verify_req(req.params).val)))
              /\ facOut' = NoFrame
              /\ UNCHANGED <<facOpen, facLast, slice_index, req, sellerOut, acceptsSent,
                             requiresSent, lastRequire, paidAuths>>
         [] got.status = "ok" /\ verify_only(req.params) ->
              /\ verify' = got.val
              /\ settle' = JsonNull
              /\ PayAccepted(got.val, JsonNull)
         [] OTHER ->
              /\ facOut' = NoFrame
              /\ UNCHANGED <<facOpen, facIn, facLast, slice_index, sellerPc, req, verify,
                             settle, pendingId, sellerOut, acceptsSent, requiresSent,
                             lastRequire, paidAuths, sentToFac, uuidCtr>>
  /\ UNCHANGED <<handled, framesRead, buyerClosed, httpLast, probe, buyer, chainUsed, tasks>>

\* recv_result(&mut ws, &id_settle) gets a frame.
SellerSettleResult ==
  /\ sellerPc = "awaitSettle"
  /\ facOut # NoFrame
  /\ LET got == recv_result(facOut, pendingId) IN
       CASE got.status = "err" -> PayRejected /\ UNCHANGED settle
         [] got.status = "ok" -> settle' = got.val /\ PayAccepted(verify, got.val)
         [] OTHER ->
              /\ facOut' = NoFrame
              /\ UNCHANGED <<facOpen, facIn, facLast, slice_index, sellerPc, req, settle,
                             pendingId, sellerOut, acceptsSent, requiresSent, lastRequire,
                             paidAuths, sentToFac, uuidCtr>>
  /\ UNCHANGED <<verify, handled, framesRead, buyerClosed, httpLast, probe, buyer, chainUsed, tasks>>

\* recv_result finds the facilitator connection closed: "WS closed before response".
SellerWsClosed ==
  /\ sellerPc \in {"awaitVerify", "awaitSettle"}
  /\ ~facOpen
  /\ facOut = NoFrame
  /\ PayRejected
  /\ UNCHANGED <<verify, settle, handled, framesRead, buyerClosed, httpLast, probe, buyer, chainUsed, tasks>>

\* The buyer closes its connection while ws_serve is inside
\* facilitator_verify_and_maybe_settle, where the socket is not polled.
BuyerCloses ==
  /\ sellerPc \in {"awaitVerify", "awaitSettle"}
  /\ ~buyerClosed
  /\ buyerClosed' = TRUE
  /\ UNCHANGED <<slice_index, sellerPc, req, verify, settle, pendingId, sellerOut, handled,
                 acceptsSent, framesRead, requiresSent, lastRequire, paidAuths, sentToFac,
                 uuidCtr>>
  /\ UNCHANGED <<facVars, httpLast, probe, buyer, chainUsed, tasks>>

Next ==
  \/ SellerRecvOther
  \/ SellerRecvClose
  \/ SellerRecvInit
  \/ SellerRecvPay
  \/ FacilitatorServes
  \/ ConnectionLost
  \/ SellerVerifyResult
  \/ SellerSettleResult
  \/ SellerWsClosed
  \/ BuyerCloses

Spec == Init /\ [][Next]_vars

----------------------------------------------------------------------------
(* SpecForge: the seller connection fed by a buyer that chooses its own     *)
(* requirements and slice numbers.                                         *)

InitForge ==
  /\ InitState
  /\ probe = NoProbe
  /\ buyer = [pc |-> "forger", sent |-> 0, frame |-> NoFrame, epoch |-> 0, pos |-> 0]

NextForge ==
  \/ SellerRecvInit
  \/ SellerRecvPay
  \/ FacilitatorServes
  \/ ConnectionLost
  \/ SellerVerifyResult
  \/ SellerSettleResult
  \/ SellerWsClosed

SpecForge == InitForge /\ [][NextForge]_vars

----------------------------------------------------------------------------
(* SpecStream: buyer.rs, the seller and the facilitator composed.           *)

\* Index in sellerOut of the next envelope the buyer has not read; 0 when none.
NextEnvelope ==
  LET pos == IF buyer.epoch = framesRead THEN buyer.pos ELSE 0 IN
  IF pos < Len(sellerOut) THEN pos + 1 ELSE 0

\* main connects and sends stream.init (lines 25-43).
BuyerStart ==
  /\ buyer.pc = "start"
  /\ buyer' = [buyer EXCEPT !.pc = "loop", !.sent = 1, !.frame = BuyerInit]
  /\ UNCHANGED <<facVars, httpLast, probe, chainUsed, tasks>>
  /\ UNCHANGED sellerVars

\* One iteration of main's loop (lines 45-100) on the next envelope of the seller.
BuyerRecv ==
  /\ buyer.pc = "loop"
  /\ NextEnvelope # 0
  /\ LET env == sellerOut[NextEnvelope] IN
     buyer' = IF BuyerReplies(env)
              THEN [pc |-> "loop", sent |-> buyer.sent + 1,
                    frame |-> stream_pay(env, buyer.sent + 1),
                    epoch |-> framesRead, pos |-> NextEnvelope]
              ELSE [buyer EXCEPT !.epoch = framesRead, !.pos = NextEnvelope]
  /\ UNCHANGED <<facVars, httpLast, probe, chainUsed, tasks>>
  /\ UNCHANGED sellerVars

InitStream ==
  /\ InitState
  /\ probe = NoProbe
  /\ buyer = [pc |-> "start", sent |-> 0, frame |-> NoFrame, epoch |-> 0, pos |-> 0]

NextStream ==
  \/ BuyerStart
  \/ BuyerRecv
  \/ SellerRecvInit
  \/ SellerRecvPay
  \/ FacilitatorServes
  \/ ConnectionLost
  \/ SellerVerifyResult
  \/ SellerSettleResult
  \/ SellerWsClosed

\* Each of the three processes runs whenever it can (tokio schedules every task).
SpecStream ==
  /\ InitStream
  /\ [][NextStream]_vars
  /\ WF_vars(BuyerStart \/ BuyerRecv)
  /\ WF_vars(SellerRecvInit \/ SellerRecvPay \/ SellerVerifyResult \/ SellerSettleResult
               \/ SellerWsClosed)
  /\ WF_vars(FacilitatorServes)

----------------------------------------------------------------------------
(* SpecBoth: a client session on the facilitator's WS endpoint up to its     *)
(* Close frame, then a seller connection as in Spec.                       *)

FacilitatorSessionOver == ~facOpen /\ facLast.frame.kind \in {"none", "close"}

NextBoth ==
  \/ framesRead = 0 /\ NextFac
  \/ (framesRead > 0 \/ FacilitatorSessionOver) /\ Next

SpecBoth == Init /\ [][NextBoth]_vars

----------------------------------------------------------------------------
(* Properties of the seller connection (Spec).                             *)

PayCompleted == handled.method = "stream.pay" /\ sellerPc = "recv"
VerifyInvalid == verify # Absent /\ ~verify.isValid
SettleUnsuccessful == settle \notin {Absent, JsonNull} /\ ~settle.success

\* C1: slice_index equals the number of payment stream.accept envelopes sent on the
\* connection; reading a frame changes it only by the payment accept it sends; and
\* the stream.require sent after the k-th payment accept carries sliceIndex = k.
C1_SliceIndexCountsAccepts ==
  /\ slice_index = acceptsSent
  /\ slice_index = handled.slice
       + Cardinality({i \in DOMAIN sellerOut : IsPaymentAccept(sellerOut[i])})
  /\ \A i \in DOMAIN sellerOut :
       IsPaymentAccept(sellerOut[i]) =>
         /\ i + 1 \in DOMAIN sellerOut
         /\ IsRequire(sellerOut[i + 1])
         /\ sellerOut[i + 1].params.sliceIndex = acceptsSent

\* C1 witness: the second accepted stream.pay, followed by stream.require{2}.
C1_Witness ==
  /\ acceptsSent = 2
  /\ Len(sellerOut) = 2
  /\ IsPaymentAccept(sellerOut[1])
  /\ sellerOut[2].params.sliceIndex = 2

\* C2: a payment stream.accept is sent only for a stream.pay whose verify result was
\* isValid = true and whose settle, when one was made, succeeded.
C2_AcceptOnlyOnSuccess ==
  \A i \in DOMAIN sellerOut :
    IsPaymentAccept(sellerOut[i]) =>
      /\ sellerOut[i].params.verify.isValid
      /\ sellerOut[i].params.settle # JsonNull => sellerOut[i].params.settle.success

\* C3: a stream.pay whose verify or settle failed is answered by exactly one error
\* envelope with code 1001 and the id of the stream.pay, by no stream.accept, with
\* slice_index unchanged, and the connection goes on reading.
C3_FailureIsOneError ==
  PayCompleted /\ (VerifyInvalid \/ SettleUnsuccessful \/ \E i \in DOMAIN sellerOut : IsError(sellerOut[i])) =>
    /\ Len(sellerOut) = 1
    /\ IsError(sellerOut[1])
    /\ sellerOut[1].id = handled.id
    /\ sellerOut[1].params.code = 1001
    /\ slice_index = handled.slice

\* C4: a stream.init is answered by stream.accept then stream.require, both with the
\* same freshly minted streamId, and the stream.require has sliceIndex = 0.
C4_InitStartsAtSliceZero ==
  handled.method = "stream.init" =>
    /\ Len(sellerOut) = 2
    /\ IsStreamAccept(sellerOut[1])
    /\ sellerOut[1].id = handled.id
    /\ IsRequire(sellerOut[2])
    /\ sellerOut[1].params.streamId = Uuid(uuidCtr - 1)
    /\ sellerOut[2].params.streamId = sellerOut[1].params.streamId
    /\ sellerOut[2].params.sliceIndex = 0

PayInFlight == sellerPc \in {"awaitVerify", "awaitSettle"}

\* C14: at most one stream.pay computation is in flight, it is the one of the latest
\* frame read, no frame is read until its facilitator exchange and its replies
\* are complete, and its replies carry its id.
C14_PayComputationsSerialized ==
  /\ [](/\ PayInFlight =>
            /\ handled.method = "stream.pay"
            /\ req.id = handled.id
            /\ sellerOut = <<>>
        /\ ~PayInFlight => req = NoReq /\ facIn = NoFrame /\ pendingId = Absent
        /\ PayCompleted /\ sellerOut # <<>> => sellerOut[1].id = handled.id)
  /\ [][framesRead' # framesRead => ~PayInFlight]_vars

\* C14 witness: a second stream.pay in flight after the first was accepted.
C14_Witness ==
  /\ framesRead = 2
  /\ sellerPc = "awaitSettle"
  /\ acceptsSent = 1

\* C17 as stated: every stream.pay sends the facilitator exactly one x402.verify and
\* at most one x402.settle, the settle after the verify response and only when
\* verifyOnly is false.
C17_ExactlyOneVerify ==
  handled.method = "stream.pay" =>
    /\ sentToFac \in {<<"x402.verify">>, <<"x402.verify", "x402.settle">>}
    /\ Len(sentToFac) = 2 => verify # Absent

\* C17 amended: at most one x402.verify - none when the stream.pay is rejected before
\* the facilitator is contacted, and then the answer is the error envelope - and
\* at most one x402.settle, sent after the verify response, only when verifyOnly
\* is not true; nothing is sent twice.
C17_SingleSubmission ==
  handled.method = "stream.pay" =>
    /\ sentToFac \in {<<>>, <<"x402.verify">>, <<"x402.verify", "x402.settle">>}
    /\ sentToFac = <<>> =>
         /\ sellerPc = "recv"
         /\ verify = Absent
         /\ Len(sellerOut) = 1 /\ IsError(sellerOut[1])
    /\ PayInFlight => build_verify_req(req.params).ok
    /\ sellerPc = "awaitVerify" => sentToFac = <<"x402.verify">> /\ verify = Absent
    /\ sellerPc = "awaitSettle" =>
         /\ sentToFac = <<"x402.verify", "x402.settle">>
         /\ verify # Absent
         /\ Get(req.params, "verifyOnly") # JsonBool(TRUE)
    /\ Len(sentToFac) = 2 => verify # Absent /\ settle # JsonNull
    /\ settle = JsonNull => sentToFac = <<"x402.verify">>

\* C17 witness: a settle that failed: one verify, one settle, then the error.
C17_Witness ==
  /\ PayCompleted
  /\ sentToFac = <<"x402.verify", "x402.settle">>
  /\ Len(sellerOut) = 1
  /\ IsError(sellerOut[1])

\* C18: once the buyer's connection is closed, a stream.pay computation that has not
\* yet asked for the settlement is aborted: nothing more is sent to the facilitator.
C18_ClosedConnectionAborts ==
  [][buyerClosed => Len(sentToFac') <= Len(sentToFac)]_vars

\* C20: at most one stream.require is outstanding (issued and not yet paid by an
\* accepted stream.pay).
C20_SingleLiveRequire == requiresSent - acceptsSent <= 1

----------------------------------------------------------------------------
(* Properties of the facilitator's WS connection (SpecFac).                *)

LastText == FrameText(facLast.frame)
LastIsEnvelope ==
  /\ facLast.frame.kind \in {"text", "binary"}
  /\ LastText.t = "obj"
  /\ LastText.id # Absent
  /\ LastText.method # NoMethod
LastWellFormed(method) ==
  LastIsEnvelope /\ LastText.method = method /\ LastText.params \in VerifyRequests

\* C5: an x402.settle with well-formed params gets {id, result: SettleResponse} only
\* when the settlement succeeded, and otherwise an error envelope with code 1001
\* whose data is a VerifyResponse with isValid = false.
C5_FailedSettleIsError1001 ==
  LastWellFormed("x402.settle") =>
    /\ facLast.response.id = LastText.id
    /\ facLast.response.t = "ok" =>
         /\ facLast.response.result.t = "SettleResponse"
         /\ facLast.response.result.success
    /\ facLast.response.t = "err" =>
         /\ facLast.response.error.code = 1001
         /\ facLast.response.error.data.t = "VerifyResponse"
         /\ ~facLast.response.error.data.isValid

\* C6: an x402.verify with well-formed params gets {id, result: VerifyResponse},
\* with isValid = false in the result when the verification failed.
C6_VerifyAlwaysResult ==
  LastWellFormed("x402.verify") =>
    /\ facLast.call = "verify"
    /\ facLast.response.t = "ok"
    /\ facLast.response.id = LastText.id
    /\ facLast.response.result.t = "VerifyResponse"
    /\ facLast.response.result.isValid = facLast.ok

\* C6 witness: a failed verification answered inside result.
C6_Witness ==
  /\ LastWellFormed("x402.verify")
  /\ ~facLast.ok
  /\ facLast.response.t = "ok"
  /\ facLast.response.result.invalidReason = "insufficientFunds"

\* C7: an envelope with an unknown method gets error -32601; an x402.verify or
\* x402.settle whose params do not deserialize gets error -32602 and the
\* facilitator's verify/settle is not called.
C7_JsonRpcErrors ==
  LastIsEnvelope =>
    /\ LastText.method \notin {"x402.supported", "x402.verify", "x402.settle"} =>
         /\ facLast.response.t = "err"
         /\ facLast.response.error.code = -32601
         /\ facLast.call = "none"
    /\ (/\ LastText.method \in {"x402.verify", "x402.settle"}
        /\ LastText.params \notin VerifyRequests) =>
         /\ facLast.response.t = "err"
         /\ facLast.response.error.code = -32602
         /\ facLast.call = "none"

\* C7 witness: an x402.settle with params that do not deserialize.
C7_Witness ==
  /\ LastIsEnvelope
  /\ LastText.method = "x402.settle"
  /\ LastText.params = Malformed
  /\ facLast.response.error.code = -32602

C15_OneResponseBeforeNextRead ==
  /\ LastIsEnvelope =>
       /\ facLast.response # NoResp
       /\ facLast.response.id = LastText.id
       /\ facOut \in {Frame("text", facLast.response), NoFrame}
       /\ facOpen => facOut = Frame("text", facLast.response)
  /\ ~LastIsEnvelope =>
       /\ facLast.response = NoResp
       /\ facOut.kind # "text"

\* C15 witness: a failed x402.settle answered on a connection that stays open.
C15_Witness ==
  /\ LastWellFormed("x402.settle")
  /\ facLast.response.t = "err"
  /\ facOpen
  /\ facOut = Frame("text", facLast.response)

----------------------------------------------------------------------------
(* Properties of WS against HTTP on the same request (SpecHttp).           *)

BothVerified == httpLast.endpoint = "verify" /\ facLast.call = "verify"
ServerSide == ~probe.outcome.ok /\ probe.outcome.err.kind \in ServerKinds

\* C9 as stated: for every outcome of verify, the result of x402.verify over WS is
\* the body of POST /verify.
C9_ParityEveryOutcome ==
  BothVerified => facLast.response.result = httpLast.response.body

\* C9 amended: for success and for every error kind but ContractCall, InvalidAddress,
\* DecodingError and ClockError the WS result is the 200 body of POST /verify; for
\* those four POST /verify answers 400 with an ErrorResponse and WS answers a
\* result with isValid = false, unexpectedSettleError and no payer.
C9_ParityWherePostVerifyIs200 ==
  BothVerified =>
    IF ServerSide
    THEN /\ httpLast.response = HttpResponse(400, ErrorResponse)
         /\ facLast.response.result =
              VerifyResponse_invalid(NoPayer, "unexpectedSettleError")
    ELSE /\ httpLast.response.status = 200
         /\ httpLast.response.body.t = "VerifyResponse"
         /\ facLast.response.result = httpLast.response.body

\* C9 witness: both surfaces answered an InsufficientFunds failure.
C9_Witness ==
  /\ BothVerified
  /\ ~probe.outcome.ok
  /\ probe.outcome.err.kind = "InsufficientFunds"
  /\ facLast.response.result.invalidReason = "insufficientFunds"

InvalidSchemeKinds == {"SchemeMismatch", "ReceiverMismatch", "InvalidSignature",
                       "InvalidTiming", "InsufficientValue"}

\* C10: POST /verify and POST /settle map SchemeMismatch, ReceiverMismatch,
\* InvalidSignature, InvalidTiming, InsufficientValue to 200 invalidScheme,
\* NetworkMismatch and UnsupportedNetwork to 200 invalidNetwork, InsufficientFunds to
\* 200 insufficientFunds, and ContractCall, DecodingError, ClockError, InvalidAddress
\* (and only those) to 400.
C10_HttpErrorMapping ==
  httpLast.endpoint \in {"verify", "settle"} /\ ~probe.outcome.ok =>
    LET kind == probe.outcome.err.kind
        resp == httpLast.response
    IN
    /\ kind \in InvalidSchemeKinds =>
         resp.status = 200 /\ ~resp.body.isValid /\ resp.body.invalidReason = "invalidScheme"
    /\ kind \in {"NetworkMismatch", "UnsupportedNetwork"} =>
         resp.status = 200 /\ ~resp.body.isValid /\ resp.body.invalidReason = "invalidNetwork"
    /\ kind = "InsufficientFunds" =>
         resp.status = 200 /\ ~resp.body.isValid /\ resp.body.invalidReason = "insufficientFunds"
    /\ kind \in {"ContractCall", "DecodingError", "ClockError", "InvalidAddress"} =>
         resp.status = 400
    /\ resp.status \in {200, 400}
    /\ resp.status = 400 =>
         kind \in {"ContractCall", "DecodingError", "ClockError", "InvalidAddress"}

\* C10 witness: POST /settle failing with InvalidTiming, answered 200 invalidScheme.
C10_Witness ==
  /\ httpLast.endpoint = "settle"
  /\ ~probe.outcome.ok
  /\ probe.outcome.err.kind = "InvalidTiming"
  /\ httpLast.response.status = 200
  /\ httpLast.response.body.invalidReason = "invalidScheme"

----------------------------------------------------------------------------
(* Properties of both servers' connections (SpecBoth).                     *)

\* C19: the iteration that reads a Close frame ends the loop without sending; after
\* it the facilitator handles no frame of that connection and sends nothing on it
\* (a later iteration belongs to a new connection), and the seller reads no
\* frame, sends nothing to the buyer and nothing to the facilitator.
C19_CloseIsTerminal ==
  /\ [](/\ facLast.frame.kind = "close" =>
            ~facOpen /\ facOut = NoFrame /\ facLast.response = NoResp
        /\ handled.kind = "close" => sellerPc = "closed" /\ sellerOut = <<>>)
  /\ [][/\ facLast.frame.kind = "close" =>
            \/ UNCHANGED facVars
            \/ facLast' = NoIteration /\ facOpen' /\ facOut' = NoFrame
        /\ sellerPc = "closed" =>
            UNCHANGED <<sellerPc, sellerOut, framesRead, handled, slice_index, acceptsSent,
                        requiresSent, sentToFac, facIn>>]_vars

\* C19 witness: both the facilitator's and the seller's connection were ended by a
\* Close frame, the seller's after a stream.init.
C19_Witness ==
  /\ handled.kind = "close"
  /\ sellerPc = "closed"
  /\ requiresSent = 1
  /\ facLast.frame.kind = "close"
  /\ ~facOpen

----------------------------------------------------------------------------
(* Properties of concurrent settlements (SpecChain).                       *)

\* C16: of all settle requests carrying one (from, nonce), whatever their surface and
\* interleaving, at most one is answered as a successful settlement, and then the
\* authorization is consumed on chain.
C16_AtMostOneSuccessfulSettle ==
  \A key \in {AuthKey(b) : b \in SettleRequests} :
    LET won == {t \in TaskIds : Succeeded(t) /\ AuthKey(tasks[t].body) = key} IN
    /\ Cardinality(won) <= 1
    /\ won # {} => key \in chainUsed

\* C16 witness: two requests passed re-verification before either submitted; one
\* was mined and answered as success, the other reverted.
C16_Witness ==
  /\ Succeeded("ws")
  /\ tasks["http"].pc = "done"
  /\ tasks["http"].outcome.ok
  /\ ~tasks["http"].outcome.val.success
  /\ tasks["http"].response.status = 200
  /\ tasks["ws2"].pc = "verified"

----------------------------------------------------------------------------
(* Properties of WS against HTTP on the same request (SpecHttp, continued).  *)

WsAnswered == probe.endpoint # "none" /\ facLast.call = probe.endpoint
ProbeFrom == probe.body.paymentPayload.from
ServerFaultResponse == VerifyResponse_invalid(NoPayer, "unexpectedSettleError")

\* C11 as stated: over WS a ContractCall, DecodingError, ClockError or InvalidAddress
\* failure is an error envelope with code 1001, for x402.verify and for x402.settle.
C11_ServerFaultIs1001 ==
  ServerSide /\ WsAnswered =>
    /\ facLast.response.t = "err"
    /\ facLast.response.error.code = 1001

\* C11 amended: for x402.settle such a failure is an error envelope with code 1001
\* whose data is {isValid: false, unexpectedSettleError, no payer}; for x402.verify
\* it is a result envelope holding that VerifyResponse.
C11_ServerFaultIs1001OnSettleOnly ==
  ServerSide /\ WsAnswered =>
    IF probe.endpoint = "settle"
    THEN /\ facLast.response.t = "err"
         /\ facLast.response.error.code = 1001
         /\ facLast.response.error.data = ServerFaultResponse
    ELSE /\ facLast.response.t = "ok"
         /\ facLast.response.result = ServerFaultResponse

\* C11 witness: an x402.settle failing with ClockError, answered with error 1001.
C11_Witness ==
  /\ ServerSide /\ WsAnswered
  /\ probe.endpoint = "settle"
  /\ probe.outcome.err.kind = "ClockError"
  /\ facLast.response.error.code = 1001

\* The request passed every check up to and including signature recovery (step 8).
SignatureRecovered ==
  /\ probe.endpoint # "none"
  /\ probe.body.paymentPayload.to = probe.body.paymentRequirements.payTo
  /\ probe.body.paymentPayload.value >= probe.body.paymentRequirements.maxAmountRequired
  /\ probe.env.fault = NoFault \/ probe.env.fault.step > 8
LaterError ==
  /\ SignatureRecovered
  /\ \/ ~probe.outcome.ok
     \/ probe.outcome.val.t = "SettleResponse" /\ ~probe.outcome.val.success
\* The payer the WS response reports.
WsPayer ==
  IF facLast.response.t = "err" THEN facLast.response.error.data.payer
  ELSE facLast.response.result.payer

\* C12: once the signature has been recovered, every error of a later step (balance
\* check, balance or nonce RPC failure, nonce check, settlement) is reported with
\* the recovered payer, by POST /verify, POST /settle and over WS.
C12_LaterErrorsCarryPayer ==
  LaterError =>
    /\ httpLast.endpoint # "none" =>
         /\ httpLast.response.body.t \in {"VerifyResponse", "SettleResponse"}
         /\ httpLast.response.body.payer = ProbeFrom
    /\ WsAnswered => WsPayer = ProbeFrom

\* The authorized value is below maxAmountRequired; scheme, network, asset and
\* receiver match.
UnderAuthorized ==
  /\ probe.endpoint = "verify"
  /\ probe.body.paymentPayload.to = probe.body.paymentRequirements.payTo
  /\ probe.body.paymentPayload.value < probe.body.paymentRequirements.maxAmountRequired
  /\ probe.env.fault = NoFault \/ probe.env.fault.step > 4

\* C13: an under-authorized payload is answered isValid = false, invalidScheme, with
\* payer = the authorization's from, by POST /verify (200) and by x402.verify.
C13_UnderAuthorizedIsInvalidScheme ==
  UnderAuthorized =>
    /\ probe.outcome = Err([kind |-> "InsufficientValue", payer |-> ProbeFrom])
    /\ httpLast.endpoint = "verify" =>
         httpLast.response = HttpResponse(200, VerifyResponse_invalid(ProbeFrom, "invalidScheme"))
    /\ WsAnswered =>
         /\ facLast.response.t = "ok"
         /\ facLast.response.result = VerifyResponse_invalid(ProbeFrom, "invalidScheme")

\* C13 witness: value 1 against maxAmountRequired 2, answered on both surfaces.
C13_Witness ==
  /\ UnderAuthorized
  /\ probe.body.paymentPayload.value = 1
  /\ httpLast.endpoint = "verify"
  /\ WsAnswered
  /\ facLast.response.result.payer = "buyer"
  /\ httpLast.response.body.invalidReason = "invalidScheme"

----------------------------------------------------------------------------
(* Properties of the facilitator's WS connection (SpecFac, continued).     *)

\* The latest iteration read a text or binary frame that is no request envelope.
LastUnparseable == facLast.frame.kind \in {"text", "binary"} /\ ~LastIsEnvelope

\* C28: a frame whose text is not a parseable request envelope (not JSON, or id or
\* method missing) gets no response and no facilitator call, the iteration that
\* reads it leaves the loop running, and the next envelope of the connection is
\* answered as usual.
C28_UnparseableIsSkipped ==
  /\ [](LastUnparseable =>
          /\ facLast.response = NoResp
          /\ facLast.call = "none"
          /\ facOut = NoFrame)
  /\ [][/\ LastUnparseable' /\ facLast' # facLast => facOpen'
        /\ LastUnparseable /\ facOpen /\ LastIsEnvelope' =>
             /\ facLast'.response # NoResp
             /\ facLast'.response.id = FrameText(facLast'.frame).id
             /\ facOpen' => facOut' = Frame("text", facLast'.response)]_vars

\* C28 witness: an x402.settle with well-formed params but no id was dropped and the
\* connection is still served.
C28_Witness ==
  /\ LastUnparseable
  /\ facOpen
  /\ LastText.t = "obj"
  /\ LastText.id = Absent
  /\ LastText.method = "x402.settle"
  /\ LastText.params \in VerifyRequests
  /\ facOut = NoFrame

----------------------------------------------------------------------------
(* Properties of WS against HTTP on the same request (SpecHttp): payer of   *)
(* the errors raised before signature recovery.                            *)

\* The request failed at one of the steps 1 to 7 of the verifier.
EarlyError ==
  /\ probe.endpoint # "none"
  /\ ~probe.outcome.ok
  /\ \/ probe.outcome.err.kind \in {"ReceiverMismatch", "InsufficientValue"}
     \/ probe.env.fault # NoFault /\ probe.env.fault.step <= 7
\* The payer the HTTP response reports; an ErrorResponse has no payer field.
HttpPayer ==
  IF httpLast.response.body.t \in {"VerifyResponse", "SettleResponse"}
  THEN httpLast.response.body.payer
  ELSE NoPayer

----------------------------------------------------------------------------
(* Properties of the seller connection (Spec, continued).                  *)

\* stream.init envelopes read so far: each sends one stream.require and no payment
\* stream.accept, and an accepted stream.pay sends one of each.
InitsReceived == requiresSent - acceptsSent

\* C24: a stream.pay read before any stream.init of the connection (state Init) is
\* not processed: nothing is sent to the facilitator for it, no payment is
\* accepted and slice_index stays 0.
C24_PayOnlyAfterInit ==
  handled.method = "stream.pay" /\ InitsReceived = 0 =>
    /\ sentToFac = <<>>
    /\ ~PayInFlight
    /\ acceptsSent = 0
    /\ slice_index = 0

\* The PaymentRequirements the seller issues in every stream.require.
SellerRequirements == build_requirements(StrId("unknown"), 0).requirements

\* C25: a stream.pay is accepted only if its authorization pays the seller's payTo
\* at least the seller's price and its streamId and sliceIndex are those of the
\* seller's latest stream.require.
C25_AcceptedMeetsOwnRequirements ==
  [][acceptsSent' > acceptsSent =>
       LET pp == Get(req.params, "paymentPayload") IN
       /\ pp.to = SellerRequirements.payTo
       /\ pp.value >= SellerRequirements.maxAmountRequired
       /\ lastRequire # Absent
       /\ Get(req.params, "streamId") = lastRequire.streamId
       /\ Get(req.params, "sliceIndex") = JsonNum(lastRequire.sliceIndex)]_vars

\* C22: no authorization (from, nonce) is accepted for more than one slice, whether
\* the stream.pay asks for settlement or is verifyOnly.
C22_OneAuthorizationPerSlice ==
  [][acceptsSent' > acceptsSent =>
       PaidBy(req.params) \notin paidAuths]_vars

----------------------------------------------------------------------------
(* Properties of the composition of buyer, seller and facilitator          *)
(* (SpecStream).                                                           *)

\* stream.require envelopes the seller sent that the buyer has not read yet.
UnreadRequires ==
  LET pos == IF buyer.epoch = framesRead THEN buyer.pos ELSE 0 IN
  Cardinality({i \in DOMAIN sellerOut : i > pos /\ IsRequire(sellerOut[i])})

\* The frame answers the stream.require with these params: same streamId,
\* sliceIndex and requirements, and an authorization of the buyer for them.
PaysFor(frame, require) ==
  /\ frame.kind = "text"
  /\ frame.text.method = "stream.pay"
  /\ LET p == frame.text.params IN
     /\ p.streamId = require.streamId
     /\ p.sliceIndex = JsonNum(require.sliceIndex)
     /\ p.requirements = require.requirements
     /\ p.paymentPayload.from = "buyer"
     /\ p.paymentPayload.to = require.requirements.payTo
     /\ p.paymentPayload.value >= require.requirements.maxAmountRequired

PayFailed == PayCompleted /\ \E i \in DOMAIN sellerOut : IsError(sellerOut[i])

\* C27: a failed stream.pay is answered by the error envelope alone, with no new
\* stream.require; from then on the buyer sends nothing, the seller reads nothing,
\* nothing is sent to the facilitator and slice_index stays where it is.
C27_FailedPayEndsStream ==
  /\ [](PayFailed =>
          /\ sellerOut = <<SellerError(handled.id)>>
          /\ UnreadRequires = 0
          /\ buyer.sent = framesRead
          /\ slice_index = handled.slice)
  /\ [][PayFailed =>
          /\ buyer'.sent = buyer.sent
          /\ buyer'.frame = buyer.frame
          /\ UNCHANGED <<slice_index, acceptsSent, requiresSent, framesRead, sellerOut,
                         sentToFac, sellerPc>>]_vars

\* C27 witness: the second stream.pay failed after the first was accepted, and the
\* buyer has read the error envelope.
C27_Witness ==
  /\ PayFailed
  /\ acceptsSent = 1
  /\ slice_index = 1
  /\ framesRead = 3
  /\ buyer.epoch = framesRead
  /\ buyer.pos = 1
  /\ buyer.sent = 3

\* C26: with every process scheduled fairly, unless a stream.pay fails (the
\* facilitator rejects, errs or its connection is lost), for every n up to the
\* bound stream.require{n} is eventually sent, and once sent it is eventually
\* answered by the payment stream.accept of slice n.
C26_StreamProgress ==
  /\ \A n \in 0..MaxSlices : <>(requiresSent > n \/ PayFailed)
  /\ \A n \in 0..(MaxSlices - 1) :
       (requiresSent > n) ~> (acceptsSent > n \/ PayFailed)

\* C26 witness: every slice up to the bound was verified, settled and accepted, and
\* the next stream.require is out.
C26_Witness ==
  /\ acceptsSent = MaxSlices
  /\ slice_index = MaxSlices
  /\ requiresSent = MaxSlices + 1
  /\ Cardinality(chainUsed) = MaxSlices
  /\ lastRequire.sliceIndex = MaxSlices
  /\ ~PayFailed

====
